---- MODULE Spec2Model ----
(***************************************************************************)
(* The listening-history store of spotify-backup (src/spotify_history.py): *)
(* an SQLite file with the tables tracks and history and the user_version  *)
(* counter, and the handlers of SpotifyHistoryDB that write it.            *)
(*                                                                         *)
(* The variables are the persisted file; a handler is one action that maps *)
(* the file to what is on disk when the handler returns, raises, or the    *)
(* process is killed inside it (the parameter crash).                      *)
(***************************************************************************)
EXTENDS Integers, Sequences, FiniteSets, TLC

VARIABLES
    user_version,   \* PRAGMA user_version of the file
    schema,         \* the columns of history that exist, {} before the tables do
    tracks,         \* rows of table tracks:  [track_id, data]
    history,        \* rows of table history: [played_at, track_id, ms_played]
    script_runs,    \* per migration: how often its script ran to its end
    func_runs,      \* per migration: how often its post-functions all ran to their end
    failed_opens,   \* how many opens have raised so far
    pc,             \* backup_everything: index in `everything` of the next sub-task, 0 outside the loop
    attempted,      \* backup_everything: the sub-tasks called so far in this run, in order
    failed,         \* backup_everything: the sub-tasks whose SpotifyException was caught and logged
    raised,         \* backup_everything: the exception that left the run, OK if none
    result          \* what the last read (get_history, get_top_tracks, ...) returned

backup_vars == <<pc, attempted, failed, raised>>

vars == <<user_version, schema, tracks, history, script_runs, func_runs,
          failed_opens, pc, attempted, failed, raised, result>>

----------------------------------------------------------------------------
(* Bounds of the model *)

\* longest list of play-history objects one ingestion gets
MaxItems == 2
\* most records an export file holds
MaxRecords == 2
\* most opens that raise in one behaviour
MaxFailedOpens == 2

----------------------------------------------------------------------------
(* Values *)

\* A nullable value is a set of at most one element: NULL (SQL NULL, Python
\* None) is the empty set and Some(v) holds the value v.
NULL == {}
Some(v) == {v}
Val(x) == CHOOSE v \in x : TRUE

\* no exception
OK == "OK"

TrackIds == {"a", "b"}

\* The catalogue of the music service: the track object it serves for an id,
\* as the recently-played feed embeds it and as spotify.tracks() returns it.
Catalogue(id) ==
    [id |-> id,
     duration_ms |-> IF id = "a" THEN 200000 ELSE 180000,
     href |-> "https://api/tracks/" \o id,
     album |-> [name |-> "album of " \o id,
                href |-> "https://api/albums/" \o id,
                images |-> <<"cover">>],
     artists |-> <<[name |-> "artist of " \o id,
                    href |-> "https://api/artists/" \o id,
                    external_urls |-> [spotify |-> "https://open/artist/" \o id]]>>]

\* The JSON type of a value of a play-history object, told by its key:
\* the values of these keys are objects (dict, a MutableMapping) ...
MappingKeys == {"track", "album", "external_urls"}
\* ... and the values of these are arrays (list) of objects
ListKeys == {"artists"}

\* Timestamps as the sources give them (ISO-8601 text), here the milliseconds
\* since the epoch that the text denotes: played_at of the recently-played
\* feed carries a fraction of a second, ts of an export file does not.
FeedStamps == {0, 150500, 200000}
ExportStamps == {0, 150000, 200000}

MsPerSec == 1000

\* SQLite's unixepoch(text): whole seconds since the epoch, the fraction dropped.
unixepoch(ts) == ts \div MsPerSec

\* keys that _cleanup_history_items strips
NoisyKeys == {"available_markets", "context", "images", "preview_url",
              "external_urls", "href"}

\* isinstance(value, MutableMapping) for the value held under a key
isinstance_MutableMapping(key) == key \in MappingKeys

\* delete_keys_from_dict: the keys leave the mapping, then every value that is
\* a mapping is treated the same way; a value that is a list is not visited
RECURSIVE delete_keys_from_dict(_, _)
delete_keys_from_dict(dictionary, keys) ==
    [k \in (DOMAIN dictionary) \ keys |->
        IF isinstance_MutableMapping(k)
        THEN delete_keys_from_dict(dictionary[k], keys)
        ELSE dictionary[k]]

\* json_extract(data, '$.duration_ms'): NULL for NULL data or a missing key
json_extract_duration_ms(data) ==
    IF data = NULL THEN NULL
    ELSE IF "duration_ms" \in DOMAIN Val(data) THEN Some(Val(data)["duration_ms"])
    ELSE NULL

----------------------------------------------------------------------------
(* The schema and its migrations *)

\* MIGRATIONS: version -> (script, post-migration functions)
MigrationVersions == {1, 2}

\* the highest version MIGRATIONS defines
HighestVersion == CHOOSE v \in MigrationVersions : \A w \in MigrationVersions : w <= v

MigrationFuncs(version) ==
    IF version = 2 THEN <<"backfill_ms_played">> ELSE <<>>

V1Columns == {"played_at", "track_id"}
V2Columns == V1Columns \cup {"ms_played"}

\* (mutant) the connection never turns foreign-key enforcement on
foreign_keys_off == FALSE

\* PRAGMA foreign_keys = ON, set on every connection
foreign_keys == TRUE

----------------------------------------------------------------------------
(* SQL statements on the two tables *)

HasTrack(t, track_id) == \E r \in t : r.track_id = track_id
TrackRow(t, track_id) == CHOOSE r \in t : r.track_id = track_id
HasPlay(h, played_at) == \E r \in h : r.played_at = played_at
PlayRow(h, played_at) == CHOOSE r \in h : r.played_at = played_at

\* json.dumps(track): the stored text holds exactly the keys of the object
json_dumps(track) == track

\* (mutant) INSERT OR REPLACE INTO history VALUES (unixepoch(?), ?, ?)
_insert_or_replace_history_item(t, h, played_at, track_id, ms_played) ==
    LET at == unixepoch(played_at) IN
    IF foreign_keys /\ ~HasTrack(t, track_id)
    THEN [history |-> h, rowcount |-> 0, error |-> "IntegrityError"]
    ELSE [history |-> {r \in h : r.played_at # at}
                        \cup {[played_at |-> at, track_id |-> track_id,
                                ms_played |-> ms_played]},
          rowcount |-> 1, error |-> OK]

\* INSERT OR IGNORE INTO history VALUES (unixepoch(?), ?, ?)
\* A taken played_at (the primary key) skips the row; a track_id with no tracks
\* row is a foreign-key failure, which OR IGNORE does not cover.
_insert_history_item(t, h, played_at, track_id, ms_played) ==
    LET at == unixepoch(played_at) IN
    IF HasPlay(h, at)
    THEN [history |-> h, rowcount |-> 0, error |-> OK]
    ELSE IF foreign_keys /\ ~HasTrack(t, track_id)
    THEN [history |-> h, rowcount |-> 0, error |-> "IntegrityError"]
    ELSE [history |-> h \cup {[played_at |-> at, track_id |-> track_id,
                               ms_played |-> ms_played]},
          rowcount |-> 1, error |-> OK]

\* (mutant) INSERT OR REPLACE INTO tracks (track_id) VALUES (?): the row is
\* rewritten with NULL data
InsertOrReplaceNullTrack(t, track_id) ==
    {r \in t : r.track_id # track_id} \cup {[track_id |-> track_id, data |-> NULL]}

\* INSERT OR IGNORE INTO tracks (track_id) VALUES (?)
InsertOrIgnoreTrack(t, track_id) ==
    IF HasTrack(t, track_id) THEN t
    ELSE t \cup {[track_id |-> track_id, data |-> NULL]}

\* INSERT OR REPLACE INTO tracks VALUES (?, ?): REPLACE deletes the row that
\* holds the key, which ON DELETE RESTRICT refuses while history refers to it.
InsertOrReplaceTrack(t, h, track_id, data) ==
    IF HasTrack(t, track_id) /\ foreign_keys /\ (\E r \in h : r.track_id = track_id)
    THEN [tracks |-> t, error |-> "IntegrityError"]
    ELSE [tracks |-> {r \in t : r.track_id # track_id}
                       \cup {[track_id |-> track_id, data |-> data]},
          error |-> OK]

_insert_track(t, h, track_id, track) ==
    IF track = NULL
    THEN [tracks |-> InsertOrIgnoreTrack(t, track_id), error |-> OK]
    ELSE InsertOrReplaceTrack(t, h, track_id, Some(json_dumps(Val(track))))

\* _cleanup_history_items on play-history objects (or on track objects)
_cleanup_history_items(items) ==
    [i \in 1..Len(items) |-> delete_keys_from_dict(items[i], NoisyKeys)]

----------------------------------------------------------------------------
(* backfill_ms_played *)

RECURSIVE SortedSeq(_)
SortedSeq(S) ==
    IF S = {} THEN <<>>
    ELSE LET m == CHOOSE x \in S : \A y \in S : x <= y
         IN <<m>> \o SortedSeq(S \ {m})

\* SELECT ... FROM history h JOIN tracks t ... WHERE played_at >= ? ORDER BY h.played_at
BackfillSelect(t, h, backfill_from) ==
    LET rows == {r \in h : r.played_at >= backfill_from /\ HasTrack(t, r.track_id)}
        ats == SortedSeq({r.played_at : r \in rows})
    IN [i \in 1..Len(ats) |->
          LET r == PlayRow(h, ats[i])
          IN [played_at |-> r.played_at,
              track_id |-> r.track_id,
              duration_ms |-> json_extract_duration_ms(TrackRow(t, r.track_id).data),
              ms_played |-> r.ms_played]]

\* (mutant) the estimate without the comparison with a full play: always the
\* time up to the next row
EstimateMsPlayedGap(row, next_row) ==
    Some((next_row.played_at - row.played_at) * MsPerSec)

\* The estimate of one row from the row after it.  The code compares
\* next.played_at with played_at + duration_ms / 1000; both sides are scaled by
\* 1000 here, which keeps the comparison exact.
EstimateMsPlayed(row, next_row) ==
    LET full_play == row.played_at * MsPerSec + Val(row.duration_ms)
    IN IF next_row.played_at * MsPerSec < full_play
       THEN Some((next_row.played_at - row.played_at) * MsPerSec)
       ELSE row.duration_ms

\* (mutant) the loop with the last row estimated as a full play
RECURSIVE BackfillLoopFullLast(_, _)
RECURSIVE BackfillLoopOneRow(_, _)
BackfillLoopFullLast(data, idx) ==
    IF idx > Len(data) THEN [data |-> data, error |-> OK]
    ELSE IF data[idx].ms_played # NULL THEN BackfillLoopFullLast(data, idx + 1)
    ELSE IF data[idx].duration_ms = NULL THEN [data |-> data, error |-> "TypeError"]
    ELSE IF idx + 1 > Len(data)
         THEN [data |-> [data EXCEPT ![idx].ms_played = data[idx].duration_ms],
               error |-> OK]
    ELSE BackfillLoopFullLast(
            [data EXCEPT ![idx].ms_played = EstimateMsPlayed(data[idx], data[idx + 1])],
            idx + 1)

\* (mutant) the loop left after the first estimate
BackfillLoopOneRow(data, idx) ==
    IF idx > Len(data) THEN [data |-> data, error |-> OK]
    ELSE IF data[idx].ms_played # NULL THEN BackfillLoopOneRow(data, idx + 1)
    ELSE IF idx + 1 > Len(data) THEN [data |-> data, error |-> OK]
    ELSE IF data[idx].duration_ms = NULL THEN [data |-> data, error |-> "TypeError"]
    ELSE [data |-> [data EXCEPT ![idx].ms_played =
                        EstimateMsPlayed(data[idx], data[idx + 1])],
          error |-> OK]

\* for idx, row in enumerate(data): ...   None / 1000 raises TypeError
RECURSIVE BackfillLoop(_, _)
BackfillLoop(data, idx) ==
    IF idx > Len(data) THEN [data |-> data, error |-> OK]
    ELSE IF data[idx].ms_played # NULL THEN BackfillLoop(data, idx + 1)
    ELSE IF idx + 1 > Len(data) THEN [data |-> data, error |-> OK]
    ELSE IF data[idx].duration_ms = NULL THEN [data |-> data, error |-> "TypeError"]
    ELSE BackfillLoop(
            [data EXCEPT ![idx].ms_played = EstimateMsPlayed(data[idx], data[idx + 1])],
            idx + 1)

\* UPDATE history SET ms_played=? WHERE played_at=? AND ms_played IS NULL, per row of data
BackfillUpdate(h, data) ==
    {IF r.ms_played = NULL /\ (\E i \in 1..Len(data) : data[i].played_at = r.played_at)
     THEN [r EXCEPT !.ms_played =
              data[CHOOSE i \in 1..Len(data) : data[i].played_at = r.played_at].ms_played]
     ELSE r : r \in h}

\* the whole method: what history is afterwards, and the result or the error
backfill_ms_played(t, h, backfill_from) ==
    LET data == BackfillSelect(t, h, backfill_from)
        loop == BackfillLoop(data, 1)
    IN IF loop.error # OK
       THEN [history |-> h, ret |-> 0, error |-> loop.error]
       ELSE [history |-> BackfillUpdate(h, loop.data),
             ret |-> Cardinality({i \in 1..Len(data) : data[i].ms_played = NULL}),
             error |-> OK]

----------------------------------------------------------------------------
(* insert_play_history_objects *)

\* (mutant) the loop with the track written before every history insert
RECURSIVE InsertItemsLoopUpsertFirst(_, _, _, _)
InsertItemsLoopUpsertFirst(t, h, items, history_items_added) ==
    IF items = <<>>
    THEN [tracks |-> t, history |-> h, added |-> history_items_added, error |-> OK]
    ELSE LET item == Head(items)
             track_id == item.track.id
             ins == _insert_track(t, h, track_id, Some(item.track))
             hist == _insert_history_item(ins.tracks, h, item.played_at, track_id, NULL)
         IN IF ins.error # OK
            THEN [tracks |-> t, history |-> h, added |-> history_items_added,
                  error |-> ins.error]
            ELSE InsertItemsLoopUpsertFirst(ins.tracks, hist.history, Tail(items),
                                            history_items_added + hist.rowcount)

\* for item in play_history_objects: the optimistic insert, and on an
\* IntegrityError the track insert and the retry
RECURSIVE InsertItemsLoop(_, _, _, _)
InsertItemsLoop(t, h, items, history_items_added) ==
    IF items = <<>>
    THEN [tracks |-> t, history |-> h, added |-> history_items_added, error |-> OK]
    ELSE LET item == Head(items)
             track == item.track
             track_id == track.id
             first == _insert_history_item(t, h, item.played_at, track_id, NULL)
             ins == _insert_track(t, h, track_id, Some(track))
             retry == _insert_history_item(ins.tracks, h, item.played_at, track_id, NULL)
         IN IF first.error = OK
            THEN InsertItemsLoop(t, first.history, Tail(items),
                                 history_items_added + first.rowcount)
            ELSE IF ins.error # OK
            THEN [tracks |-> t, history |-> h, added |-> history_items_added,
                  error |-> ins.error]
            ELSE IF retry.error # OK
            THEN [tracks |-> ins.tracks, history |-> h, added |-> history_items_added,
                  error |-> retry.error]
            ELSE InsertItemsLoop(ins.tracks, retry.history, Tail(items),
                                 history_items_added + retry.rowcount)

\* if backfill_from: 0 and None are both false
Truthy(backfill_from) == backfill_from # NULL /\ Val(backfill_from) # 0

\* The whole method.  tracks/history: the file when the method returns or
\* raises (an error before con.commit() leaves the file as it was);
\* committed: the file right after con.commit().
insert_play_history_objects(t, h, play_history_objects, backfill_from) ==
    LET loop == InsertItemsLoop(t, h, _cleanup_history_items(play_history_objects), 0)
        fill == backfill_ms_played(loop.tracks, loop.history, Val(backfill_from))
    IN IF loop.error # OK
       THEN [tracks |-> t, history |-> h, ret |-> 0, error |-> loop.error]
       ELSE IF Truthy(backfill_from)
       THEN [tracks |-> loop.tracks, history |-> fill.history,
             ret |-> loop.added, error |-> fill.error]
       ELSE [tracks |-> loop.tracks, history |-> loop.history,
             ret |-> loop.added, error |-> OK]

\* the file right after the con.commit() of insert_play_history_objects
CommittedInserts(t, h, play_history_objects) ==
    insert_play_history_objects(t, h, play_history_objects, NULL)

\* (mutant) SELECT MIN(played_at) FROM history
get_least_recent_timestamp(h) ==
    IF h = {} THEN 0
    ELSE CHOOSE at \in {r.played_at : r \in h} : \A r \in h : at <= r.played_at

\* SELECT MAX(played_at) FROM history; None and 0 are both returned as 0
get_most_recent_timestamp(h) ==
    IF h = {} THEN 0
    ELSE CHOOSE at \in {r.played_at : r \in h} : \A r \in h : r.played_at <= at

\* SpotifyBackup.backup_history on an opened store: the watermark is read,
\* the feed is fetched, and the items, if any, are inserted with the
\* watermark as backfill_from
backup_history(t, h, items) ==
    LET after == get_most_recent_timestamp(h)
    IN IF items # <<>>
       THEN insert_play_history_objects(t, h, items, Some(after))
       ELSE [tracks |-> t, history |-> h, ret |-> 0, error |-> OK]

----------------------------------------------------------------------------
(* insert_from_gdpr_json and backfill_track_data *)

\* uri.split(":")[-1] of a URI given as its colon-separated segments
LastSegment(uri) == uri[Len(uri)]

\* entry.get(x) is None for one of ts, ms_played, spotify_track_uri
MissingField(entry) ==
    entry.ts = NULL \/ entry.ms_played = NULL \/ entry.spotify_track_uri = NULL

\* (mutant) the parsing loop without the test ms_played == 0
ParseGdprKeepZero(data) ==
    {[played_at |-> Val(data[i].ts),
      track_id |-> LastSegment(Val(data[i].spotify_track_uri)),
      ms_played |-> Val(data[i].ms_played)] :
        i \in {j \in 1..Len(data) : ~MissingField(data[j])}}

\* the set `history` that the parsing loop builds from the JSON array
ParseGdpr(data) ==
    {[played_at |-> Val(data[i].ts),
      track_id |-> LastSegment(Val(data[i].spotify_track_uri)),
      ms_played |-> Val(data[i].ms_played)] :
        i \in {j \in 1..Len(data) : ~MissingField(data[j]) /\ Val(data[j].ms_played) # 0}}

\* the orders in which a Python set may be iterated
Orders(S) ==
    {f \in [1..Cardinality(S) -> S] : \A i, j \in 1..Cardinality(S) : f[i] = f[j] => i = j}

\* executemany("INSERT OR IGNORE INTO tracks (track_id) VALUES (?)", ...)
RECURSIVE InsertManyTracks(_, _)
InsertManyTracks(t, rows) ==
    IF rows = <<>> THEN t
    ELSE InsertManyTracks(InsertOrIgnoreTrack(t, Head(rows).track_id), Tail(rows))

\* (mutant) executemany("INSERT OR REPLACE INTO history VALUES (unixepoch(?), ?, ?)", history)
RECURSIVE InsertManyHistoryReplace(_, _, _)
InsertManyHistoryReplace(t, h, rows) ==
    IF rows = <<>> THEN [history |-> h, error |-> OK]
    ELSE LET r == _insert_or_replace_history_item(t, h, Head(rows).played_at,
                                                  Head(rows).track_id,
                                                  Some(Head(rows).ms_played))
         IN IF r.error # OK THEN [history |-> h, error |-> r.error]
            ELSE InsertManyHistoryReplace(t, r.history, Tail(rows))

\* executemany("INSERT OR IGNORE INTO history VALUES (unixepoch(?), ?, ?)", history)
RECURSIVE InsertManyHistory(_, _, _)
InsertManyHistory(t, h, rows) ==
    IF rows = <<>> THEN [history |-> h, error |-> OK]
    ELSE LET r == _insert_history_item(t, h, Head(rows).played_at, Head(rows).track_id,
                                       Some(Head(rows).ms_played))
         IN IF r.error # OK THEN [history |-> h, error |-> r.error]
            ELSE InsertManyHistory(t, r.history, Tail(rows))

\* (mutant) UPDATE history SET ms_played=? WHERE played_at=unixepoch(?)
UpdateMsPlayedUnguarded(h, ms_played, played_at) ==
    {IF r.played_at = unixepoch(played_at)
     THEN [r EXCEPT !.ms_played = Some(ms_played)]
     ELSE r : r \in h}

\* UPDATE history SET ms_played=? WHERE played_at=unixepoch(?) and ms_played IS NULL
UpdateMsPlayed(h, ms_played, played_at) ==
    {IF r.played_at = unixepoch(played_at) /\ r.ms_played = NULL
     THEN [r EXCEPT !.ms_played = Some(ms_played)]
     ELSE r : r \in h}

RECURSIVE UpdateManyMsPlayed(_, _)
UpdateManyMsPlayed(h, rows) ==
    IF rows = <<>> THEN h
    ELSE UpdateManyMsPlayed(UpdateMsPlayed(h, Head(rows).ms_played, Head(rows).played_at),
                            Tail(rows))

BatchSize == 50

\* _batch(track_ids, 50): the k-th batch
Batch(track_ids, k) ==
    SubSeq(track_ids, (k - 1) * BatchSize + 1,
           IF k * BatchSize < Len(track_ids) THEN k * BatchSize ELSE Len(track_ids))

NumBatches(track_ids) == (Len(track_ids) + BatchSize - 1) \div BatchSize

NullTrackIds(t) == {r.track_id : r \in {x \in t : x.data = NULL}}

\* executemany("UPDATE tracks SET data=? WHERE track_id=?", ...) for one batch
\* of fetched and cleaned track objects
UpdateTrackData(t, batch) ==
    {IF \E i \in 1..Len(batch) : batch[i] = r.track_id
     THEN [r EXCEPT !.data =
              Some(json_dumps(delete_keys_from_dict(Catalogue(r.track_id), NoisyKeys)))]
     ELSE r : r \in t}

\* The batches 1..k of track_ids fetched and committed.
RECURSIVE BackfillBatches(_, _, _)
BackfillBatches(t, track_ids, k) ==
    IF k = 0 THEN t
    ELSE UpdateTrackData(BackfillBatches(t, track_ids, k - 1), Batch(track_ids, k))

\* (mutant) the method with one commit after the loop instead of one per batch
backfill_track_data_one_commit(t, track_ids, fail_batch) ==
    IF Len(track_ids) = 0 THEN [tracks |-> t, error |-> OK]
    ELSE IF fail_batch = 0
    THEN [tracks |-> BackfillBatches(t, track_ids, NumBatches(track_ids)), error |-> OK]
    ELSE [tracks |-> t, error |-> "SpotifyException"]

\* The whole method.  track_ids: the rows with NULL data in the order the
\* SELECT gives them; fail_batch: the batch whose fetch raises, 0 for none.
backfill_track_data(t, track_ids, fail_batch) ==
    IF Len(track_ids) = 0 THEN [tracks |-> t, error |-> OK]
    ELSE IF fail_batch = 0
    THEN [tracks |-> BackfillBatches(t, track_ids, NumBatches(track_ids)), error |-> OK]
    ELSE [tracks |-> BackfillBatches(t, track_ids, fail_batch - 1),
          error |-> "SpotifyException"]

\* insert_from_gdpr_json from cur = self.con.cursor() to self.con.commit().
\* order: the iteration order of the set `history`, one order for the three
\* executemany calls.
GdprStatements(t, h, order) ==
    LET t1 == InsertManyTracks(t, order)
        ins == InsertManyHistory(t1, h, order)
    IN IF ins.error # OK
       THEN [tracks |-> t, history |-> h, error |-> ins.error]
       ELSE [tracks |-> t1, history |-> UpdateManyMsPlayed(ins.history, order),
             error |-> OK]

\* The whole method: with backfill it ends in backfill_track_data().
insert_from_gdpr_json(t, h, order, backfill, track_ids, fail_batch) ==
    LET r == GdprStatements(t, h, order)
        b == backfill_track_data(r.tracks, track_ids, fail_batch)
    IN IF backfill /\ r.error = OK
       THEN [tracks |-> b.tracks, history |-> r.history, error |-> b.error]
       ELSE r

----------------------------------------------------------------------------
(* __init__ and _apply_migrations *)

\* where the environment makes a step of a migration fail (an I/O error, a
\* locked file, the process killed): the script, the version bump, a post-function
NoFail == [version |-> 0, step |-> "none"]
FailPoints ==
    {NoFail} \cup [version : MigrationVersions, step : {"script", "version", "func"}]

\* con.executescript(query): it commits what is pending and runs the
\* statements in autocommit mode, so what it does is on disk at once.
\*   1: CREATE TABLE IF NOT EXISTS history ...; CREATE TABLE IF NOT EXISTS tracks ...
\*   2: ALTER TABLE history ADD COLUMN ms_played INTEGER
RunScript(version, sch) ==
    IF version = 1
    THEN [schema |-> IF sch = {} THEN V1Columns ELSE sch, error |-> OK]
    ELSE IF sch = {} \/ "ms_played" \in sch
    THEN [schema |-> sch, error |-> "OperationalError"]
    ELSE [schema |-> sch \cup {"ms_played"}, error |-> OK]

\* for func in funcs: getattr(self, func)()
RunFuncs(st, version, fail) ==
    LET fill == backfill_ms_played(st.tracks, st.history, 0)
    IN IF MigrationFuncs(version) = <<>> THEN st
       ELSE IF fail = [version |-> version, step |-> "func"]
       THEN [st EXCEPT !.error = "OperationalError"]
       ELSE IF fill.error # OK THEN [st EXCEPT !.error = fill.error]
       ELSE [st EXCEPT !.history = fill.history, !.func_runs[version] = @ + 1]

\* PRAGMA user_version = {version}: not a DML statement, so no transaction is
\* open for it and it is on disk at once; then self.db_version = version
BumpVersion(st, version) ==
    [st EXCEPT !.user_version = version, !.db_version = version]

\* (mutant) the loop body with the test version >= self.db_version
ApplyMigrationAtOrAbove(st, version, fail) ==
    LET script == RunScript(version, st.schema)
        scripted == [st EXCEPT !.schema = script.schema, !.script_runs[version] = @ + 1]
    IN IF st.error # OK \/ ~(version >= st.db_version) THEN st
       ELSE IF script.error # OK THEN [st EXCEPT !.error = script.error]
       ELSE RunFuncs(BumpVersion(scripted, version), version, fail)

\* the body of the loop of _apply_migrations for one migration
ApplyMigration(st, version, fail) ==
    LET script == RunScript(version, st.schema)
        scripted == [st EXCEPT !.schema = script.schema, !.script_runs[version] = @ + 1]
    IN IF st.error # OK \/ ~(version > st.db_version) THEN st
       ELSE IF fail = [version |-> version, step |-> "script"]
       THEN [st EXCEPT !.error = "OperationalError"]
       ELSE IF script.error # OK THEN [st EXCEPT !.error = script.error]
       ELSE IF fail = [version |-> version, step |-> "version"]
       THEN [scripted EXCEPT !.error = "OperationalError"]
       ELSE RunFuncs(BumpVersion(scripted, version), version, fail)

\* for version, migration in MIGRATIONS.items(): in the order of the dict
RECURSIVE ApplyMigrationsFrom(_, _, _)
ApplyMigrationsFrom(st, versions, fail) ==
    IF versions = <<>> THEN st
    ELSE ApplyMigrationsFrom(ApplyMigration(st, Head(versions), fail), Tail(versions), fail)

_apply_migrations(st, fail) ==
    ApplyMigrationsFrom(st, SortedSeq(MigrationVersions), fail)

\* the file as __init__ finds it; self.db_version is read from PRAGMA user_version
Opened ==
    [user_version |-> user_version, schema |-> schema, tracks |-> tracks,
     history |-> history, db_version |-> user_version,
     script_runs |-> script_runs, func_runs |-> func_runs, error |-> OK]

\* the constructor has returned a SpotifyHistoryDB on this file
Usable == user_version = 2 /\ schema = V2Columns

----------------------------------------------------------------------------
(* The reads: get_history, get_top_tracks, get_today_last_year *)

\* no read has returned yet
NoResult == [op |-> "none"]

\* date(h.played_at, 'unixepoch'): the day of a timestamp, as days since 1970-01-01
SecondsPerDay == 86400
date_unixepoch(played_at) == played_at \div SecondsPerDay

\* the Gregorian calendar of datetime.date, for the years 1970..2099
IsLeap(year) == year % 4 = 0
DaysInMonth(year, month) ==
    IF month = 2 THEN (IF IsLeap(year) THEN 29 ELSE 28)
    ELSE IF month \in {4, 6, 9, 11} THEN 30 ELSE 31

RECURSIVE DaysBeforeMonth(_, _)
DaysBeforeMonth(year, month) ==
    IF month = 1 THEN 0
    ELSE DaysBeforeMonth(year, month - 1) + DaysInMonth(year, month - 1)

\* date(?) of start.strftime("%Y-%m-%d"), as days since 1970-01-01
DayNumber(d) ==
    365 * (d.year - 1970) + ((d.year - 1969) \div 4)
    + DaysBeforeMonth(d.year, d.month) + (d.day - 1)

\* date.replace(year=...): NULL stands for the ValueError of a day that the
\* month of the new year does not have
replace_year(d, year) ==
    IF d.day <= DaysInMonth(year, d.month)
    THEN Some([d EXCEPT !.year = year])
    ELSE NULL

\* LIMIT ?: a negative limit is no limit, LIMIT 0 is no row
Limit(rows, limit) ==
    IF limit < 0 \/ limit >= Len(rows) THEN rows ELSE SubSeq(rows, 1, limit)

\* ORDER BY of a set of rows by two ascending terms, the pair in their field key
RECURSIVE OrderBy(_)
OrderBy(S) ==
    IF S = {} THEN <<>>
    ELSE LET x == CHOOSE x \in S : \A y \in S \ {x} :
                      \/ x.key[1] < y.key[1]
                      \/ x.key[1] = y.key[1] /\ x.key[2] < y.key[2]
         IN <<x>> \o OrderBy(S \ {x})

\* FROM history h JOIN tracks t ON h.track_id = t.track_id
Joined(t, h) == {r \in h : HasTrack(t, r.track_id)}

\* (mutant) the bare column played_at of a group taken from its latest row
BareColumnOfMaxRow(group) ==
    CHOOSE at \in {r.played_at : r \in group} : \A r \in group : r.played_at <= at

\* the bare column played_at of a group in a query with one MIN(): SQLite
\* takes it from the row that holds the minimum
BareColumn(group) ==
    CHOOSE at \in {r.played_at : r \in group} : \A r \in group : at <= r.played_at

\* SELECT t.track_id, MIN(h.played_at), COUNT(h.track_id) ... WHERE date(...)
\* BETWEEN date(?) AND date(?) GROUP BY t.track_id
\* ORDER BY play_count DESC, played_at ASC LIMIT ?
get_top_tracks(t, h, start, end, limit) ==
    LET window == {r \in Joined(t, h) :
                      /\ DayNumber(start) <= date_unixepoch(r.played_at)
                      /\ date_unixepoch(r.played_at) <= DayNumber(end)}
        Group(id) == {r \in window : r.track_id = id}
        groups == {[track_id |-> id,
                    played_first_at |->
                        CHOOSE at \in {r.played_at : r \in Group(id)} :
                            \A r \in Group(id) : at <= r.played_at,
                    play_count |-> Cardinality(Group(id)),
                    key |-> <<0 - Cardinality(Group(id)), BareColumn(Group(id))>>] :
                        id \in {r.track_id : r \in window}}
        ordered == OrderBy(groups)
    IN Limit([i \in 1..Len(ordered) |->
                 [track_id |-> ordered[i].track_id,
                  played_first_at |-> ordered[i].played_first_at,
                  play_count |-> ordered[i].play_count]], limit)

\* today_last_year = date.today().replace(year=date.today().year - 1), then
\* get_top_tracks(today_last_year, today_last_year, limit)
get_today_last_year(t, h, today, limit) ==
    LET today_last_year == replace_year(today, today.year - 1)
    IN IF today_last_year = NULL
       THEN [rows |-> <<>>, error |-> "ValueError"]
       ELSE [rows |-> get_top_tracks(t, h, Val(today_last_year),
                                     Val(today_last_year), limit),
             error |-> OK]

\* (mutant) the end-only clause as a condition no row meets
EndOnlyClauseNoRow(r, end) == FALSE

\* elif end: " AND datetime(h.played_at, 'unixepoch') <= datetime(?)": the
\* clause follows the ON condition of the JOIN and so filters the rows
EndOnlyClause(r, end) == r.played_at <= Val(end)

\* the four shapes of the WHERE clause; datetime values compare as seconds
get_history(t, h, start, end, limit) ==
    LET where(r) ==
            IF start # NULL /\ end # NULL
            THEN Val(start) <= r.played_at /\ r.played_at <= Val(end)
            ELSE IF start # NULL THEN r.played_at >= Val(start)
            ELSE IF end # NULL THEN EndOnlyClause(r, end)
            ELSE TRUE
        rows == {[played_at |-> r.played_at, track_id |-> r.track_id,
                  key |-> <<r.played_at, 0>>] :
                    r \in {x \in Joined(t, h) : where(x)}}
        ordered == OrderBy(rows)
    IN Limit([i \in 1..Len(ordered) |->
                 [played_at |-> ordered[i].played_at,
                  track_id |-> ordered[i].track_id]], limit)

----------------------------------------------------------------------------
(* Inputs *)

\* play-history objects of the recently-played feed
PlayHistoryObjects ==
    {[played_at |-> ts, track |-> Catalogue(id),
      context |-> [type |-> "playlist", href |-> "https://api/playlists/p"]] :
        ts \in FeedStamps, id \in TrackIds}

SeqsUpTo(S, n) == UNION {[1..k -> S] : k \in 0..n}

ItemLists == SeqsUpTo(PlayHistoryObjects, MaxItems)

\* the played_at values a row can hold
PlayedAts == {unixepoch(ts) : ts \in FeedStamps \cup ExportStamps}

\* backfill_from: None or a played_at of the ledger's range
BackfillFroms == {NULL} \cup {Some(at) : at \in PlayedAts}

TrackUri(id) == <<"spotify", "track", id>>

\* the ms_played an export record of a track carries: one value per track,
\* so that a stored value tells which track's record wrote it
ExportMsPlayed(id) == IF id = "a" THEN 500 ELSE 700

ImportedMs == {Some(ExportMsPlayed(id)) : id \in TrackIds}

\* records of an export file: the well-formed ones and one of each kind that
\* the import drops
ExportRecords ==
    {[ts |-> Some(ts), ms_played |-> Some(ExportMsPlayed(id)),
      spotify_track_uri |-> Some(TrackUri(id))] : ts \in ExportStamps, id \in TrackIds}
    \cup {[ts |-> NULL, ms_played |-> Some(500), spotify_track_uri |-> Some(TrackUri("a"))],
          [ts |-> Some(0), ms_played |-> NULL, spotify_track_uri |-> Some(TrackUri("a"))],
          [ts |-> Some(0), ms_played |-> Some(0), spotify_track_uri |-> Some(TrackUri("a"))],
          [ts |-> Some(0), ms_played |-> Some(500), spotify_track_uri |-> NULL]}

ExportFiles == SeqsUpTo(ExportRecords, MaxRecords)

----------------------------------------------------------------------------
(* The actions *)

Init ==
    /\ user_version = 0
    /\ schema = {}
    /\ tracks = {}
    /\ history = {}
    /\ script_runs = [v \in MigrationVersions |-> 0]
    /\ func_runs = [v \in MigrationVersions |-> 0]
    /\ failed_opens = 0
    /\ pc = 0
    /\ attempted = <<>>
    /\ failed = {}
    /\ raised = OK
    /\ result = NoResult

\* SpotifyHistoryDB(db_file): every run of the program starts with it
Open(fail) ==
    LET st == _apply_migrations(Opened, fail)
    IN /\ fail # NoFail => st.error # OK
       /\ st.error # OK => failed_opens < MaxFailedOpens
       /\ user_version' = st.user_version
       /\ schema' = st.schema
       /\ history' = st.history
       /\ script_runs' = st.script_runs
       /\ func_runs' = st.func_runs
       /\ failed_opens' = IF st.error # OK THEN failed_opens + 1 ELSE failed_opens
       /\ UNCHANGED <<tracks, backup_vars, result>>

InsertPlayHistoryObjects(play_history_objects, backfill_from) ==
    LET r == insert_play_history_objects(tracks, history, play_history_objects,
                                         backfill_from)
    IN /\ Usable
       /\ tracks' = r.tracks
       /\ history' = r.history
       /\ UNCHANGED <<user_version, schema, script_runs, func_runs, failed_opens, backup_vars, result>>

\* SpotifyBackup.backup_history with the items the feed returned
BackupHistory(items) ==
    LET r == backup_history(tracks, history, items)
    IN /\ Usable
       /\ tracks' = r.tracks
       /\ history' = r.history
       /\ UNCHANGED <<user_version, schema, script_runs, func_runs, failed_opens, backup_vars, result>>

\* The process is killed inside insert_play_history_objects: in the loop (also
\* between the track insert and the retried history insert), where the open
\* transaction is rolled back, or after con.commit().
KilledInInsertPlayHistoryObjects(play_history_objects, point) ==
    LET c == CommittedInserts(tracks, history, play_history_objects)
    IN /\ Usable
       /\ play_history_objects # <<>>
       /\ c.error = OK
       /\ tracks' = IF point = "after_commit" THEN c.tracks ELSE tracks
       /\ history' = IF point = "after_commit" THEN c.history ELSE history
       /\ UNCHANGED <<user_version, schema, script_runs, func_runs, failed_opens, backup_vars, result>>

\* insert_from_gdpr_json(json_file, backfill=False), as cmd_import_history
\* calls it for each file
InsertFromGdprJson(data, order) ==
    LET r == insert_from_gdpr_json(tracks, history, order, FALSE, <<>>, 0)
    IN /\ Usable
       /\ order \in Orders(ParseGdpr(data))
       /\ tracks' = r.tracks
       /\ history' = r.history
       /\ UNCHANGED <<user_version, schema, script_runs, func_runs, failed_opens, backup_vars, result>>

BackfillTrackData(track_ids, fail_batch) ==
    LET b == backfill_track_data(tracks, track_ids, fail_batch)
    IN /\ Usable
       /\ track_ids \in Orders(NullTrackIds(tracks))
       /\ fail_batch \in 0..NumBatches(track_ids)
       /\ tracks' = b.tracks
       /\ UNCHANGED <<user_version, schema, history, script_runs, func_runs, failed_opens, backup_vars, result>>

BackfillMsPlayed(backfill_from) ==
    LET b == backfill_ms_played(tracks, history, backfill_from)
    IN /\ Usable
       /\ history' = b.history
       /\ UNCHANGED <<user_version, schema, tracks, script_runs, func_runs, failed_opens, backup_vars, result>>

\* _insert_track(cur, track_id) with track=None, committed by its caller
InsertTrackPlaceholder(track_id) ==
    LET r == _insert_track(tracks, history, track_id, NULL)
    IN /\ Usable
       /\ tracks' = r.tracks
       /\ UNCHANGED <<user_version, schema, history, script_runs, func_runs, failed_opens, backup_vars, result>>

Next ==
    \/ Open(NoFail)
    \/ \E items \in ItemLists, backfill_from \in BackfillFroms :
          InsertPlayHistoryObjects(items, backfill_from)
    \/ \E items \in ItemLists : BackupHistory(items)
    \/ \E items \in ItemLists, point \in {"in_loop", "after_commit"} :
          KilledInInsertPlayHistoryObjects(items, point)
    \/ \E data \in ExportFiles :
          \E order \in Orders(ParseGdpr(data)) : InsertFromGdprJson(data, order)
    \/ \E track_ids \in Orders(NullTrackIds(tracks)) :
          \E fail_batch \in 0..NumBatches(track_ids) :
             BackfillTrackData(track_ids, fail_batch)
    \/ \E backfill_from \in PlayedAts : BackfillMsPlayed(backfill_from)
    \/ \E track_id \in TrackIds : InsertTrackPlaceholder(track_id)

Spec == Init /\ [][Next]_vars

\* Opens in which a step of a migration may fail, and the ingestion of one
\* recently-played item at a time in between.
NextMigrate ==
    \/ \E fail \in FailPoints : Open(fail)
    \/ \E item \in PlayHistoryObjects : InsertPlayHistoryObjects(<<item>>, NULL)

SpecMigrate == Init /\ [][NextMigrate]_vars

----------------------------------------------------------------------------
(* The reads, on ledgers whose plays are spread over two days *)

MaxQueryItems == 4

\* recently-played items on 1970-01-01 and 1970-01-02
QueryStamps == {10000, 20000, 86410000, 86420000}
QueryItems ==
    {[played_at |-> ts, track |-> Catalogue(id),
      context |-> [type |-> "playlist", href |-> "https://api/playlists/p"]] :
        ts \in QueryStamps, id \in TrackIds}

Date(year, month, day) == [year |-> year, month |-> month, day |-> day]

\* --start / --end of top-tracks (date.fromisoformat)
QueryDates == {Date(1970, 1, 1), Date(1970, 1, 2), Date(1970, 1, 3)}

\* --start / --end of the history read (datetime.fromisoformat), None if not given
QueryTimes == {NULL} \cup {Some(unixepoch(ts)) : ts \in QueryStamps \ {86420000}}

\* --limit (type=int)
Limits == {-1, 0, 1, 2}

\* date.today()
Todays == {Date(1971, 1, 1), Date(1971, 1, 2), Date(1972, 2, 29)}

\* a store that was opened and has ingested one list of feed items
InitQuery ==
    \E items \in SeqsUpTo(QueryItems, MaxQueryItems) :
        LET r == insert_play_history_objects({}, {}, items, NULL)
        IN /\ user_version = HighestVersion
           /\ schema = V2Columns
           /\ tracks = r.tracks
           /\ history = r.history
           /\ script_runs = [v \in MigrationVersions |-> 1]
           /\ func_runs = [v \in MigrationVersions |->
                              IF MigrationFuncs(v) = <<>> THEN 0 ELSE 1]
           /\ failed_opens = 0
           /\ pc = 0
           /\ attempted = <<>>
           /\ failed = {}
           /\ raised = OK
           /\ result = NoResult

\* cmd_top_tracks: db.get_top_tracks(start, end, args.limit)
GetTopTracks(start, end, limit) ==
    /\ Usable
    /\ result' = [op |-> "get_top_tracks", start |-> start, end |-> end,
                  limit |-> limit, error |-> OK,
                  rows |-> get_top_tracks(tracks, history, start, end, limit)]
    /\ UNCHANGED <<user_version, schema, tracks, history, script_runs, func_runs,
                   failed_opens, backup_vars>>

\* cmd_today_last_year: db.get_today_last_year(args.limit)
GetTodayLastYear(today, limit) ==
    LET r == get_today_last_year(tracks, history, today, limit)
    IN /\ Usable
       /\ result' = [op |-> "get_today_last_year", today |-> today,
                     limit |-> limit, error |-> r.error, rows |-> r.rows]
       /\ UNCHANGED <<user_version, schema, tracks, history, script_runs, func_runs,
                      failed_opens, backup_vars>>

\* cmd_history: db.get_history(args.start, args.end)
GetHistory(start, end, limit) ==
    /\ Usable
    /\ result' = [op |-> "get_history", start |-> start, end |-> end,
                  limit |-> limit, error |-> OK,
                  rows |-> get_history(tracks, history, start, end, limit)]
    /\ UNCHANGED <<user_version, schema, tracks, history, script_runs, func_runs,
                   failed_opens, backup_vars>>

NextQuery ==
    \/ \E start \in QueryDates, end \in QueryDates, limit \in Limits :
          GetTopTracks(start, end, limit)
    \/ \E today \in Todays, limit \in Limits : GetTodayLastYear(today, limit)
    \/ \E start \in QueryTimes, end \in QueryTimes, limit \in Limits :
          GetHistory(start, end, limit)

SpecQuery == InitQuery /\ [][NextQuery]_vars

----------------------------------------------------------------------------
(* backfill_track_data on a tracks table of more than two batches *)

MaxTracks == 101

Digits == <<"0", "1", "2", "3", "4", "5", "6", "7", "8", "9">>

\* the track-id of the n-th track of a large export
TrackName(n) ==
    "t" \o Digits[(n \div 100) + 1] \o Digits[((n \div 10) % 10) + 1]
        \o Digits[(n % 10) + 1]

\* what the import of an export of n records, the plays of n tracks in one
\* second, leaves: a placeholder per track, and the row of the record that
\* came first
LargeImport(n) ==
    [tracks |-> {[track_id |-> TrackName(i), data |-> NULL] : i \in 1..n},
     history |-> {[played_at |-> 0, track_id |-> TrackName(i), ms_played |-> Some(500)] :
                     i \in 1..(IF n > 0 THEN 1 ELSE 0)}]

\* SELECT track_id FROM tracks WHERE data IS NULL has no ORDER BY: of the
\* orders SQLite may give, the ascending and the descending one
SelectOrders(t) ==
    LET names == [i \in 1..MaxTracks |-> TrackName(i)]
        asc == SelectSeq(names, LAMBDA id : id \in NullTrackIds(t))
    IN {asc, [i \in 1..Len(asc) |-> asc[Len(asc) + 1 - i]]}

\* a store that was opened and has imported one large export
InitBackfill ==
    \E n \in 0..MaxTracks :
        LET r == LargeImport(n)
        IN /\ user_version = HighestVersion
           /\ schema = V2Columns
           /\ tracks = r.tracks
           /\ history = r.history
           /\ script_runs = [v \in MigrationVersions |-> 1]
           /\ func_runs = [v \in MigrationVersions |->
                              IF MigrationFuncs(v) = <<>> THEN 0 ELSE 1]
           /\ failed_opens = 0
           /\ pc = 0
           /\ attempted = <<>>
           /\ failed = {}
           /\ raised = OK
           /\ result = NoResult

NextBackfill ==
    \E track_ids \in SelectOrders(tracks) :
        \E fail_batch \in 0..NumBatches(track_ids) :
            BackfillTrackData(track_ids, fail_batch)

SpecBackfill == InitBackfill /\ [][NextBackfill]_vars

----------------------------------------------------------------------------
(* SpotifyBackup.backup_everything, one sub-task per step *)

\* (mutant) the tuple with backup_history first
everything_history_first ==
    <<"backup_history", "backup_playlists", "backup_saved_objects",
      "backup_top_objects", "backup_followed_artists">>

\* the tuple `everything` of backup_everything
everything ==
    <<"backup_playlists", "backup_saved_objects", "backup_top_objects",
      "backup_followed_artists", "backup_history">>

\* (mutant) a loop body without the except clause
CaughtNever(error) == FALSE

\* except SpotifyException as e: logger.error(...)
Caught(error) == error = "SpotifyException"

\* the errors a sub-task that only calls the API and dumps JSON ends with
ApiOutcomes == {OK, "SpotifyException"}

\* what the recently-played fetch of backup_history gives: NULL when it
\* raises SpotifyException, otherwise the items
Fetches == {NULL} \cup {Some(items) : items \in ItemLists}

\* the for loop after everything[pc] ended with error: a caught error is
\* logged and the loop goes on; any other error leaves backup_everything
LoopGoesOn(error) ==
    /\ attempted' = Append(attempted, everything[pc])
    /\ failed' = IF error # OK /\ Caught(error)
                 THEN failed \cup {everything[pc]} ELSE failed
    /\ raised' = IF error = OK \/ Caught(error) THEN OK ELSE error
    /\ pc' = IF (error = OK \/ Caught(error)) /\ pc < Len(everything)
             THEN pc + 1 ELSE 0

\* main without --history-only: sb.backup_everything() is entered
StartBackupEverything ==
    /\ pc = 0
    /\ pc' = 1
    /\ attempted' = <<>>
    /\ failed' = {}
    /\ raised' = OK
    /\ UNCHANGED <<user_version, schema, tracks, history, script_runs, func_runs,
                   failed_opens, result>>

\* func() for backup_playlists, backup_saved_objects, backup_top_objects and
\* backup_followed_artists: API calls and JSON dumps, the store untouched
RunFunc(error) ==
    /\ pc > 0
    /\ everything[pc] # "backup_history"
    /\ LoopGoesOn(error)
    /\ UNCHANGED <<user_version, schema, tracks, history, script_runs, func_runs,
                   failed_opens, result>>

\* func() for backup_history: the store is opened (and migrated), then the
\* feed is fetched and its items are inserted
RunBackupHistory(fail, fetched) ==
    LET st == _apply_migrations(Opened, fail)
        r == backup_history(tracks, st.history, Val(fetched))
        error == IF st.error # OK THEN st.error
                 ELSE IF fetched = NULL THEN "SpotifyException"
                 ELSE r.error
        stored == st.error = OK /\ fetched # NULL
    IN /\ pc > 0
       /\ everything[pc] = "backup_history"
       /\ fail # NoFail => st.error # OK
       /\ st.error # OK => failed_opens < MaxFailedOpens
       /\ user_version' = st.user_version
       /\ schema' = st.schema
       /\ script_runs' = st.script_runs
       /\ func_runs' = st.func_runs
       /\ failed_opens' = IF st.error # OK THEN failed_opens + 1 ELSE failed_opens
       /\ tracks' = IF stored THEN r.tracks ELSE tracks
       /\ history' = IF stored THEN r.history ELSE st.history
       /\ LoopGoesOn(error)
       /\ UNCHANGED result

NextBackup ==
    \/ StartBackupEverything
    \/ \E error \in ApiOutcomes : RunFunc(error)
    \/ \E fail \in FailPoints, fetched \in Fetches : RunBackupHistory(fail, fetched)

SpecBackup == Init /\ [][NextBackup]_vars

----------------------------------------------------------------------------
(* The claims *)

\* the tracks row a history row refers to is a placeholder / has data
IsPlaceholder(t, track_id) == HasTrack(t, track_id) /\ TrackRow(t, track_id).data = NULL
IsFull(t, track_id) == HasTrack(t, track_id) /\ TrackRow(t, track_id).data # NULL

\* C1: no orphan rows.  In every state of the file, also the one a kill inside
\* insert_play_history_objects leaves behind, the track_id of every history
\* row is the track_id of a tracks row.
C1_NoOrphanRows == \A r \in history : HasTrack(tracks, r.track_id)

\* C1, witness: history rows that refer to a placeholder (written by a bulk
\* import) and to a full track (written by the create-then-retry path of the
\* live feed, its ms_played still NULL).
C1_Witness ==
    /\ \E r \in history : r.ms_played \in ImportedMs /\ IsPlaceholder(tracks, r.track_id)
    /\ \E r \in history : r.ms_played = NULL /\ IsFull(tracks, r.track_id)

\* the (played_at, track_id) rows of the ledger
HistoryKeys(h) == {<<r.played_at, r.track_id>> : r \in h}

\* C2: idempotent live-feed ingestion.  For any list and any state of the
\* store, a second insert_play_history_objects with the same list adds no
\* history row, reports 0 items added, and raises no error.
C2_IdempotentIngestion ==
    \A items \in ItemLists, backfill_from \in BackfillFroms :
        Usable =>
            LET once == insert_play_history_objects(tracks, history, items, backfill_from)
                twice == insert_play_history_objects(once.tracks, once.history, items,
                                                     backfill_from)
            IN /\ HistoryKeys(twice.history) = HistoryKeys(once.history)
               /\ twice.error = OK
               /\ twice.ret = 0

\* C2, the part the code keeps: the second call inserts no row and counts 0
\* items, whether or not its backfill then raises.
C2_SecondCallAddsNoRow ==
    \A items \in ItemLists, backfill_from \in BackfillFroms :
        Usable =>
            LET once == insert_play_history_objects(tracks, history, items, backfill_from)
                again == InsertItemsLoop(once.tracks, once.history,
                                         _cleanup_history_items(items), 0)
            IN /\ again.error = OK
               /\ again.added = 0
               /\ HistoryKeys(again.history) = HistoryKeys(once.history)

\* the sets `history` an export file can parse to, in every iteration order
ImportOrders == UNION {Orders(ParseGdpr(data)) : data \in ExportFiles}

\* C3: metadata non-clobber.  No step of any handler leaves a tracks row that
\* had data with NULL data, and a placeholder insert for an id that has data
\* (_insert_track with track=None, the batched insert of a bulk import) leaves
\* that row as it was.
C3_MetadataNonClobber ==
    [][/\ \A r \in tracks : r.data # NULL => IsFull(tracks', r.track_id)
       /\ \A r \in tracks, track_id \in TrackIds :
             r.data # NULL => r \in _insert_track(tracks, history, track_id, NULL).tracks
       /\ \A r \in tracks, order \in ImportOrders :
             r.data # NULL => r \in InsertManyTracks(tracks, order)]_vars

\* C3, witness: every track has data, and one of them has a row written by a
\* bulk import (which ran the placeholder insert for its id) and a row written
\* by the live feed.
C3_Witness ==
    \E r \in history :
        /\ r.ms_played \in ImportedMs
        /\ IsFull(tracks, r.track_id)
        /\ NullTrackIds(tracks) = {}
        /\ \E q \in history : q.track_id = r.track_id /\ q.ms_played = NULL

\* C4: ms_played is write-once.  A history row whose ms_played is not NULL
\* keeps that value through every step of every handler.
C4_MsPlayedWriteOnce ==
    [][\A r \in history :
          r.ms_played # NULL =>
             \E q \in history' : q.played_at = r.played_at /\ q.ms_played = r.ms_played]_vars

\* C4, witness: a row whose ms_played the backfill estimated (150000 is no
\* value of an export file), at a second that export records carry, beside a
\* row whose ms_played a bulk import wrote.
C4_Witness ==
    /\ \E r \in history : r.played_at = 0 /\ r.ms_played = Some(150000)
    /\ \E r \in history : r.ms_played \in ImportedMs

\* C5: bulk import is idempotent.  From any state of the store, for any export
\* file: after an import that returned, importing the same file again (the
\* set iterated in any order, with or without backfill) leaves every tracks
\* row and every history row as the first import left it.
C5_ImportIdempotent ==
    \A data \in ExportFiles, backfill \in BOOLEAN :
        \A first_order, second_order \in Orders(ParseGdpr(data)) :
            Usable =>
                \A track_ids \in Orders(NullTrackIds(
                        GdprStatements(tracks, history, first_order).tracks)) :
                    LET first == insert_from_gdpr_json(tracks, history, first_order,
                                                       backfill, track_ids, 0)
                        second == insert_from_gdpr_json(first.tracks, first.history,
                                     second_order, backfill,
                                     CHOOSE ids \in Orders(NullTrackIds(first.tracks)) : TRUE,
                                     0)
                    IN /\ first.error = OK
                       /\ second.error = OK
                       /\ second.tracks = first.tracks
                       /\ second.history = first.history

\* C5, witness: a bulk import has written a row over a second that already
\* held a live-feed row of the other track, and has filled that row's ms_played.
C5_Witness ==
    \E r \in history :
        /\ r.ms_played \in ImportedMs
        /\ r.ms_played # Some(ExportMsPlayed(r.track_id))

\* start points of a direct backfill call (the default 0 included)
BackfillStarts == {0} \cup PlayedAts

\* the estimate as the specification words it, for a row and the row after it
\* in timestamp order, from the declared duration of the row's track
SpecEstimate(row, next_row) ==
    LET duration_ms == Val(json_extract_duration_ms(TrackRow(tracks, row.track_id).data))
    IN IF next_row.played_at * MsPerSec < row.played_at * MsPerSec + duration_ms
       THEN (next_row.played_at - row.played_at) * MsPerSec
       ELSE duration_ms

\* C6: duration estimate for a non-last row.  For every start point, every
\* row of the window whose ms_played is null, whose track has a duration and
\* which has a next row in timestamp order has, after backfill_ms_played, the
\* gap to the next row in milliseconds when the next row starts strictly
\* before the full play ends, and the full duration otherwise.
C6_EstimateNonLastRow ==
    Usable =>
        \A backfill_from \in BackfillStarts :
            LET data == BackfillSelect(tracks, history, backfill_from)
                after == backfill_ms_played(tracks, history, backfill_from).history
            IN \A idx \in 1..(Len(data) - 1) :
                   (data[idx].ms_played = NULL /\ IsFull(tracks, data[idx].track_id))
                   => PlayRow(after, data[idx].played_at).ms_played
                        = Some(SpecEstimate(data[idx], data[idx + 1]))

\* C6, what the code does keep: the same, for the calls that return.
C6_EstimateWhenBackfillReturns ==
    Usable =>
        \A backfill_from \in BackfillStarts :
            LET data == BackfillSelect(tracks, history, backfill_from)
                res == backfill_ms_played(tracks, history, backfill_from)
            IN res.error = OK =>
                 \A idx \in 1..(Len(data) - 1) :
                     data[idx].ms_played = NULL
                     => PlayRow(res.history, data[idx].played_at).ms_played
                          = Some(SpecEstimate(data[idx], data[idx + 1]))

\* C7 as the specification states it: a row with null ms_played that is the
\* last of the ledger has its track's full duration after backfill_ms_played.
C7_LastRowGetsFullDuration ==
    Usable =>
        \A backfill_from \in BackfillStarts :
            LET data == BackfillSelect(tracks, history, backfill_from)
                res == backfill_ms_played(tracks, history, backfill_from)
            IN (/\ Len(data) > 0
                /\ data[Len(data)].ms_played = NULL
                /\ IsFull(tracks, data[Len(data)].track_id)
                /\ res.error = OK)
               => PlayRow(res.history, data[Len(data)].played_at).ms_played
                    = data[Len(data)].duration_ms

\* C7: the last row is left alone.  For every start point, a row with null
\* ms_played that has no later row in the ledger still has null ms_played
\* after backfill_ms_played, whatever its track's duration.
C7_LastRowStaysNull ==
    Usable =>
        \A backfill_from \in BackfillStarts :
            LET data == BackfillSelect(tracks, history, backfill_from)
                res == backfill_ms_played(tracks, history, backfill_from)
            IN (Len(data) > 0 /\ data[Len(data)].ms_played = NULL)
               => PlayRow(res.history, data[Len(data)].played_at).ms_played = NULL

\* C7, witness: the specification's example after a backfill: the play of
\* track a (200000 ms) at second 0 estimated at 150000, the play of track b
\* (180000 ms) at second 150 the last row, its ms_played null.
C7_Witness ==
    /\ history = {[played_at |-> 0, track_id |-> "a", ms_played |-> Some(150000)],
                  [played_at |-> 150, track_id |-> "b", ms_played |-> NULL]}
    /\ IsFull(tracks, "a")
    /\ IsFull(tracks, "b")

\* C8: backfill is idempotent.  From any state of the store and for every
\* start point, a second backfill_ms_played run right after a first leaves
\* every history row as the first run left it.
C8_BackfillIdempotent ==
    Usable =>
        \A backfill_from \in BackfillStarts :
            LET first == backfill_ms_played(tracks, history, backfill_from)
                second == backfill_ms_played(tracks, first.history, backfill_from)
            IN /\ second.history = first.history
               /\ second.error = first.error

\* the values only an estimate produces: gaps between stamps and full durations
EstimatedMs ==
    {Some(Catalogue(id).duration_ms) : id \in TrackIds}
    \cup {Some((y - x) * MsPerSec) : x \in PlayedAts, y \in PlayedAts}

\* C8, witness: a backfill has estimated two rows of a three-row ledger, so a
\* run over the same rows finds rows it filled before.
C8_Witness ==
    /\ Cardinality({r \in history : r.ms_played \in EstimatedMs \ ImportedMs}) = 2
    /\ Cardinality(history) = 3

\* the file as the first k migrations leave it when each of them runs whole
MigratedWhole(k) ==
    ApplyMigrationsFrom(Opened, SubSeq(SortedSeq(MigrationVersions), 1, k), NoFail)

\* C9: a migration is atomic.  An open during which a step of a migration
\* fails (the script, the version bump or a post-migration function) leaves
\* on disk what the migrations before the failing one made of the file, each
\* of them whole: schema, user_version and rows are those of the file before
\* the failing migration began.
C9_MigrationAtomic ==
    [][failed_opens' > failed_opens =>
          \E k \in 0..Cardinality(MigrationVersions) :
              LET st == MigratedWhole(k)
              IN /\ st.error = OK
                 /\ user_version' = st.user_version
                 /\ schema' = st.schema
                 /\ history' = st.history
                 /\ tracks' = st.tracks
                 /\ func_runs' = st.func_runs]_vars

\* C9, what the code does keep: a failed open never changes a row.
C9_FailedOpenKeepsRows ==
    [][failed_opens' > failed_opens => (history' = history /\ tracks' = tracks)]_vars

\* C10: across every sequence of opens, failed ones included, user_version
\* never decreases, the script of each migration has run at most once, and
\* while user_version is v the post-migration functions of every migration
\* up to v have run to their end exactly once.
C10_MigrateOnce ==
    [][/\ user_version' >= user_version
       /\ \A version \in MigrationVersions :
            /\ script_runs'[version] <= 1
            /\ (user_version' >= version /\ MigrationFuncs(version) # <<>>)
               => func_runs'[version] = 1]_vars

\* C10, what the code does keep: user_version never decreases, and no
\* post-migration function runs to its end twice.
C10_VersionNeverDecreases ==
    [][/\ user_version' >= user_version
       /\ \A version \in MigrationVersions : func_runs'[version] <= 1]_vars

\* C11: migration terminal state.  From every state of the file, an open in
\* which no step fails and that returns leaves user_version at the highest
\* version of MIGRATIONS, having run the script of exactly the migrations
\* above the stored version; and an open of a file already at the highest
\* version returns, runs no script and no post-function, and leaves schema,
\* tracks and history as they were.
C11_MigrationTerminalState ==
    LET st == _apply_migrations(Opened, NoFail)
    IN /\ st.error = OK =>
            /\ st.user_version = HighestVersion
            /\ \A version \in MigrationVersions :
                 st.script_runs[version] =
                    script_runs[version] + (IF version > user_version THEN 1 ELSE 0)
       /\ user_version = HighestVersion =>
            /\ st.error = OK
            /\ st.script_runs = script_runs
            /\ st.func_runs = func_runs
            /\ st.schema = schema
            /\ st.tracks = tracks
            /\ st.history = history

\* C11, witness: a file at the highest version whose ledger holds rows with
\* null ms_played that a run of the post-function would fill, so an open
\* that ran it again would show.
C11_Witness ==
    /\ user_version = HighestVersion
    /\ Cardinality({r \in history : r.ms_played = NULL}) >= 2
    /\ backfill_ms_played(tracks, history, 0).history # history

\* C12: live-feed backfill coverage.  From every state of the store,
\* empty ledger included, and for every list of feed items: after
\* backup_history, every row the call added and the row that was the tail
\* before it, if it has a later row in the ledger and its track has a
\* duration, has non-null ms_played.
C12_LiveFeedBackfillCoverage ==
    Usable =>
        \A items \in ItemLists :
            LET r == backup_history(tracks, history, items)
                after == get_most_recent_timestamp(history)
            IN \A row \in r.history :
                 (/\ \/ ~HasPlay(history, row.played_at)
                     \/ (history # {} /\ row.played_at = after)
                  /\ \E later \in r.history : later.played_at > row.played_at
                  /\ IsFull(r.tracks, row.track_id))
                 => row.ms_played # NULL

\* C12, what the code does keep: with a watermark other than 0, when the
\* call returns, the same holds for the rows at or after the watermark.
C12_CoverageFromWatermark ==
    Usable =>
        \A items \in ItemLists :
            LET r == backup_history(tracks, history, items)
                after == get_most_recent_timestamp(history)
            IN (after # 0 /\ r.error = OK) =>
                 \A row \in r.history :
                     (/\ row.played_at >= after
                      /\ \E later \in r.history : later.played_at > row.played_at)
                     => row.ms_played # NULL

\* C13: sub-task independence in a full backup.  Whatever subset of the five
\* sub-tasks fails with SpotifyException: while the loop runs, the sub-tasks
\* called so far are a prefix of `everything` and nothing was raised; when
\* backup_everything is left, all five were called once each in the order of
\* `everything`, every failed one was logged, and no SpotifyException left the
\* run (what leaves it is an error of the history store itself).
C13_SubTaskIndependence ==
    /\ pc > 0 => (attempted = SubSeq(everything, 1, pc - 1) /\ raised = OK)
    /\ (pc = 0 /\ attempted # <<>>) =>
          /\ attempted = everything
          /\ raised \in {OK, "OperationalError", "TypeError"}
    /\ failed \subseteq {attempted[i] : i \in 1..Len(attempted)}

\* C13, witness: a run that is over in which backup_playlists failed and
\* backup_history still ran and wrote rows, nothing raised.
C13_Witness ==
    /\ pc = 0
    /\ failed = {"backup_playlists"}
    /\ attempted = everything
    /\ raised = OK
    /\ history # {}

\* C13, witness of the other end: all five sub-tasks failed, all five were
\* called, nothing raised.
C13_WitnessAllFail ==
    /\ pc = 0
    /\ failed = {everything[i] : i \in 1..Len(everything)}
    /\ attempted = everything
    /\ raised = OK

\* C14 as the specification states it: when an open of the history store
\* fails in a full backup, no sub-task has been called before.
C14_MigrationBeforeBackupWork ==
    [][failed_opens' > failed_opens => attempted = <<>>]_vars

\* the sub-tasks of `everything` other than backup_history, in order
OtherFuncs == SelectSeq(everything, LAMBDA func : func # "backup_history")

\* C14: the history store is opened last.  In a full backup the store is
\* opened and migrated inside backup_history, the last sub-task: when an
\* open fails, the four other sub-tasks have been called before, in order,
\* and the error leaves backup_everything.
C14_MigrationAfterOtherFuncs ==
    [][failed_opens' > failed_opens =>
          /\ attempted = OtherFuncs
          /\ attempted' = Append(OtherFuncs, "backup_history")
          /\ raised' = "OperationalError"
          /\ pc' = 0]_vars

\* C14, witness: a run left by a migration error after the four other
\* sub-tasks ran without failure.
C14_Witness ==
    /\ failed_opens > 0
    /\ raised = "OperationalError"
    /\ attempted = everything
    /\ failed = {}

\* a record the specification keeps: ts, ms_played and spotify_track_uri all
\* present, and ms_played not 0
KeptRecord(entry) ==
    /\ entry.ts # NULL
    /\ entry.ms_played # NULL
    /\ entry.spotify_track_uri # NULL
    /\ Val(entry.ms_played) # 0

\* the track-id of a record: the final colon-delimited segment of its URI
RecordTrackId(entry) ==
    LET uri == Val(entry.spotify_track_uri) IN uri[Len(uri)]

\* C15: export record filtering.  From every state of the store and for
\* every export file, the import raises nothing; the triples it writes are
\* those of the kept records and of no dropped one; afterwards the tracks
\* rows are the old ones and one per track-id of a kept record, the history
\* rows are at the old seconds and at the seconds of the kept records; and a
\* kept record whose second was free and is claimed by no other record of the
\* file is the row (second, final URI segment, ms_played).
C15_ExportRecordFiltering ==
    Usable =>
        \A data \in ExportFiles :
            LET kept == {data[i] : i \in {j \in 1..Len(data) : KeptRecord(data[j])}}
            IN /\ ParseGdpr(data) =
                     {[played_at |-> Val(e.ts), track_id |-> RecordTrackId(e),
                       ms_played |-> Val(e.ms_played)] : e \in kept}
               /\ \A order \in Orders(ParseGdpr(data)) :
                    LET r == insert_from_gdpr_json(tracks, history, order, FALSE, <<>>, 0)
                    IN /\ r.error = OK
                       /\ {t.track_id : t \in r.tracks} =
                             {t.track_id : t \in tracks} \cup {RecordTrackId(e) : e \in kept}
                       /\ {h.played_at : h \in r.history} =
                             {h.played_at : h \in history}
                             \cup {unixepoch(Val(e.ts)) : e \in kept}
                       /\ \A h \in history : \E g \in r.history :
                             g.played_at = h.played_at /\ g.track_id = h.track_id
                       /\ \A e \in kept :
                            (/\ ~HasPlay(history, unixepoch(Val(e.ts)))
                             /\ \A f \in kept : f.ts = e.ts => f = e)
                            => PlayRow(r.history, unixepoch(Val(e.ts))) =
                                 [played_at |-> unixepoch(Val(e.ts)),
                                  track_id |-> RecordTrackId(e),
                                  ms_played |-> e.ms_played]

\* C15, witness: the store after the import of a file into an empty store:
\* one row, with the ms_played of its track's record, its track a placeholder
\* and the only tracks row.
C15_Witness ==
    \E h \in history :
        /\ history = {h}
        /\ h.ms_played = Some(ExportMsPlayed(h.track_id))
        /\ tracks = {[track_id |-> h.track_id, data |-> NULL]}

\* the rows of the ledger whose day lies in the inclusive window of two dates
InWindow(start, end) ==
    {r \in history : /\ DayNumber(start) <= date_unixepoch(r.played_at)
                     /\ date_unixepoch(r.played_at) <= DayNumber(end)}

\* rows is, for the window, one row per track played in it with its play
\* count and its first play in it, by count descending, then first play ascending
IsTopOrdering(rows, start, end) ==
    LET plays(id) == {r \in InWindow(start, end) : r.track_id = id}
    IN /\ {rows[i].track_id : i \in 1..Len(rows)}
             = {r.track_id : r \in InWindow(start, end)}
       /\ \A i, j \in 1..Len(rows) : rows[i].track_id = rows[j].track_id => i = j
       /\ \A i \in 1..Len(rows) :
            /\ rows[i].play_count = Cardinality(plays(rows[i].track_id))
            /\ \E r \in plays(rows[i].track_id) : r.played_at = rows[i].played_first_at
            /\ \A r \in plays(rows[i].track_id) : rows[i].played_first_at <= r.played_at
       /\ \A i, j \in 1..Len(rows) :
            i < j => \/ rows[i].play_count > rows[j].play_count
                     \/ /\ rows[i].play_count = rows[j].play_count
                        /\ rows[i].played_first_at < rows[j].played_first_at

\* C16: top-tracks ordering.  For every ledger and every window, what
\* get_top_tracks returns without a limit is one row per track played in the
\* inclusive window, with its play count and first play inside the window,
\* ordered by play count descending and, among equal counts, by first play
\* ascending.
C16_TopTracksOrdering ==
    (result.op = "get_top_tracks" /\ result.limit < 0)
    => IsTopOrdering(result.rows, result.start, result.end)

\* C16, witness: a result in which two tracks have the same play count, more
\* than one play each, and the first play decided the order.
C16_Witness ==
    /\ result.op = "get_top_tracks"
    /\ result.limit < 0
    /\ Len(result.rows) = 2
    /\ result.rows[1].play_count = 2
    /\ result.rows[2].play_count = 2

\* the window of a top-tracks or today-last-year result
ResultStart ==
    IF result.op = "get_top_tracks" THEN result.start
    ELSE Val(replace_year(result.today, result.today.year - 1))
ResultEnd ==
    IF result.op = "get_top_tracks" THEN result.end
    ELSE Val(replace_year(result.today, result.today.year - 1))

\* C17 as the specification states it: with a limit n > 0 the first n rows of
\* the full ordering are returned (all, if there are fewer), and with a limit
\* of 0 or below all rows are.
C17_ResultLimit ==
    (result.op \in {"get_top_tracks", "get_today_last_year"} /\ result.error = OK)
    => \E full \in [1..Cardinality({r.track_id : r \in InWindow(ResultStart, ResultEnd)})
                      -> [track_id : TrackIds, play_count : 1..Cardinality(history),
                          played_first_at : {r.played_at : r \in history}]] :
          /\ IsTopOrdering(full, ResultStart, ResultEnd)
          /\ result.rows =
                IF result.limit > 0 /\ result.limit < Len(full)
                THEN SubSeq(full, 1, result.limit) ELSE full

\* C17, what the code does keep: the same for every limit but 0, and no row
\* at all for the limit 0.
C17_ResultLimitButZero ==
    (result.op \in {"get_top_tracks", "get_today_last_year"} /\ result.error = OK)
    => \E full \in [1..Cardinality({r.track_id : r \in InWindow(ResultStart, ResultEnd)})
                      -> [track_id : TrackIds, play_count : 1..Cardinality(history),
                          played_first_at : {r.played_at : r \in history}]] :
          /\ IsTopOrdering(full, ResultStart, ResultEnd)
          /\ result.rows =
                IF result.limit = 0 THEN <<>>
                ELSE IF result.limit > 0 /\ result.limit < Len(full)
                THEN SubSeq(full, 1, result.limit) ELSE full

\* C18: history range query.  For start given or not and end given or not,
\* a get_history without a limit returns the ledger rows whose timestamp is
\* in the inclusive window, unbounded on a side that is not given, by
\* timestamp ascending, each once; and the read leaves the store as it was.
C18_HistoryRangeQuery ==
    [][(result' # result /\ result'.op = "get_history" /\ result'.limit < 0) =>
          LET rows == result'.rows
              window == {r \in history :
                            /\ result'.start # NULL => Val(result'.start) <= r.played_at
                            /\ result'.end # NULL => r.played_at <= Val(result'.end)}
          IN /\ result'.error = OK
             /\ {<<rows[i].played_at, rows[i].track_id>> : i \in 1..Len(rows)}
                   = {<<r.played_at, r.track_id>> : r \in window}
             /\ \A i, j \in 1..Len(rows) : i < j => rows[i].played_at < rows[j].played_at
             /\ UNCHANGED <<user_version, schema, tracks, history>>]_vars

\* C18, witness: a read with only the end given that returned some rows of
\* the ledger and left others out.
C18_Witness ==
    /\ result.op = "get_history"
    /\ result.start = NULL
    /\ result.end # NULL
    /\ result.limit < 0
    /\ Len(result.rows) >= 2
    /\ Len(result.rows) < Cardinality(history)

\* C19: watermark.  After every step, get_most_recent_timestamp returns 0 on
\* an empty ledger and otherwise a played_at of the ledger that no row
\* exceeds; and over every step of every operation the value it returns
\* does not decrease.
C19_Watermark ==
    [][LET after == get_most_recent_timestamp(history')
       IN /\ history' = {} => after = 0
          /\ history' # {} =>
                /\ \E r \in history' : r.played_at = after
                /\ \A r \in history' : r.played_at <= after
          /\ after >= get_most_recent_timestamp(history)]_vars

\* C19, witness: a ledger of three rows whose watermark is the latest second
\* a row can hold.
C19_Witness ==
    /\ get_most_recent_timestamp(history) = 200
    /\ Cardinality(history) = 3

\* the ids of a sequence from position lo to position hi
IdsBetween(track_ids, lo, hi) ==
    {track_ids[i] : i \in {j \in 1..Len(track_ids) : lo <= j /\ j <= hi}}

\* C20: resumable metadata backfill.  For every order of the tracks with null
\* data and every batch k whose fetch fails: the ids are requested in
\* consecutive batches of at most 50; the error leaves the call; the tracks
\* of batches 1..k-1 have their metadata on disk and all other rows are as
\* before; and the tracks a later call requests are those still null, none
\* of batches 1..k-1 among them.  When no fetch fails, no track is left null.
C20_ResumableBackfill ==
    Usable =>
        \A track_ids \in SelectOrders(tracks) :
            /\ \A k \in 1..NumBatches(track_ids) :
                 /\ Len(Batch(track_ids, k)) <= 50
                 /\ Len(Batch(track_ids, k)) >= 1
                 /\ {Batch(track_ids, k)[i] : i \in 1..Len(Batch(track_ids, k))}
                       = IdsBetween(track_ids, 50 * (k - 1) + 1, 50 * k)
            /\ \A fail_batch \in 1..NumBatches(track_ids) :
                 LET r == backfill_track_data(tracks, track_ids, fail_batch)
                     done == IdsBetween(track_ids, 1, 50 * (fail_batch - 1))
                 IN /\ r.error = "SpotifyException"
                    /\ \A row \in tracks :
                         IF row.track_id \in done
                         THEN IsFull(r.tracks, row.track_id)
                         ELSE row \in r.tracks
                    /\ Cardinality(r.tracks) = Cardinality(tracks)
                    /\ NullTrackIds(r.tracks) = NullTrackIds(tracks) \ done
                    /\ \A later \in SelectOrders(r.tracks) :
                         {later[i] : i \in 1..Len(later)} = NullTrackIds(r.tracks)
            /\ LET r == backfill_track_data(tracks, track_ids, 0)
               IN r.error = OK /\ NullTrackIds(r.tracks) = {}

\* C20, witness: a table of 101 tracks after a call whose second batch
\* failed: the 50 tracks of the first batch have metadata, 51 are still null.
C20_Witness ==
    /\ Cardinality(tracks) = 101
    /\ Cardinality(NullTrackIds(tracks)) = 51

\* C21: optimistic insert, fallback to create-then-retry.  From every state
\* of the store, for every list of feed items and every backfill_from: the
\* call raises no IntegrityError; every tracks row that existed before the
\* call is unchanged after it; and a tracks row it adds is that of an item
\* whose id had no row, holds the track object of the item, and is referred
\* to by a history row.
C21_OptimisticInsert ==
    Usable =>
        \A items \in ItemLists, backfill_from \in BackfillFroms :
            LET r == insert_play_history_objects(tracks, history, items, backfill_from)
                ids == {items[i].track.id : i \in 1..Len(items)}
            IN /\ r.error # "IntegrityError"
               /\ \A row \in tracks : row \in r.tracks
               /\ \A row \in r.tracks \ tracks :
                     /\ row.track_id \in ids
                     /\ ~HasTrack(tracks, row.track_id)
                     /\ \E x \in r.history : x.track_id = row.track_id
                     /\ row.data # NULL
                     /\ Val(row.data).id = row.track_id
                     /\ Val(row.data).duration_ms = Catalogue(row.track_id).duration_ms

\* C21, witness: a live-feed row (its ms_played still null) that refers to a
\* placeholder: the event was ingested by the optimistic insert alone and
\* the tracks row was left as it was.
C21_Witness ==
    \E r \in history :
        /\ r.ms_played = NULL
        /\ IsPlaceholder(tracks, r.track_id)
        /\ \E x \in tracks : x.data # NULL

\* C22: append-only ledger. No step of the store removes a history row or a
\* tracks row, and no step changes the played_at or the track_id of a history
\* row: every history row is still there after the step with the same second
\* and the same track, and every id of tracks still has its row. An insert for
\* a second that is already stored is such a step, whatever its track.
C22_AppendOnlyLedger ==
    [][/\ \A r \in history :
             \E x \in history' : /\ x.played_at = r.played_at
                                 /\ x.track_id = r.track_id
       /\ \A r \in tracks : HasTrack(tracks', r.track_id)
       /\ Cardinality(history') >= Cardinality(history)]_vars

\* C22, witness: a row of one track carries the ms_played of an export record
\* of another track, whose placeholder is in tracks and which no history row
\* refers to: the record's insert met the stored second and the row kept its
\* track.
C22_Witness ==
    \E r \in history, id \in TrackIds :
        /\ id # r.track_id
        /\ r.ms_played = Some(ExportMsPlayed(id))
        /\ HasTrack(tracks, id)
        /\ \A x \in history : x.track_id # id

\* the keys of a stored object at any depth: its own, those of the mappings
\* under it, and those of the mappings that are elements of its lists
RECURSIVE KeysAtAnyDepth(_)
KeysAtAnyDepth(d) ==
    DOMAIN d \cup UNION {
        IF k \in MappingKeys THEN KeysAtAnyDepth(d[k])
        ELSE IF k \in ListKeys
             THEN UNION {KeysAtAnyDepth(d[k][i]) : i \in DOMAIN d[k]}
             ELSE {} : k \in DOMAIN d}

\* the keys of a stored object and of the mappings reached from it through
\* mappings only
RECURSIVE KeysOutsideLists(_)
KeysOutsideLists(d) ==
    DOMAIN d \cup UNION {
        IF k \in MappingKeys THEN KeysOutsideLists(d[k]) ELSE {} : k \in DOMAIN d}

\* C23: noisy-field stripping. No stored track metadata holds one of the keys
\* available_markets, context, images, preview_url, external_urls, href in any
\* of its mappings at any depth, the mappings that are elements of a list (the
\* entries of artists) included.
C23_NoNoisyKeyStored ==
    \A row \in tracks :
        row.data # NULL => KeysAtAnyDepth(Val(row.data)) \cap NoisyKeys = {}

\* C23, what holds: no noisy key is left in the stored object itself or in a
\* mapping reached from it through mappings only (the album).
C23_NoNoisyKeyOutsideLists ==
    \A row \in tracks :
        row.data # NULL => KeysOutsideLists(Val(row.data)) \cap NoisyKeys = {}

\* C23, the case: metadata is stored, written by the live feed or fetched by
\* the metadata backfill, of a track whose object has an album and artists.
C23_Witness ==
    \E row \in tracks :
        /\ row.data # NULL
        /\ "album" \in DOMAIN Val(row.data)
        /\ "artists" \in DOMAIN Val(row.data)

\* C24: the duration backfill never fails on a reachable store. In every
\* state that imports, live-feed ingestions and metadata backfills lead to,
\* backfill_ms_played completes without an error from every start point.
C24_BackfillNeverFails ==
    Usable =>
        \A backfill_from \in BackfillStarts :
            backfill_ms_played(tracks, history, backfill_from).error = OK

\* C24, what holds: the backfill completes whenever every row it has to
\* estimate, that is every row with null ms_played but the last selected one,
\* refers to a track with a declared duration.
C24_BackfillFailsOnlyOnNullDuration ==
    Usable =>
        \A backfill_from \in BackfillStarts :
            LET data == BackfillSelect(tracks, history, backfill_from)
            IN (\A i \in 1..(Len(data) - 1) :
                    data[i].ms_played = NULL => data[i].duration_ms # NULL)
               => backfill_ms_played(tracks, history, backfill_from).error = OK

\* C24, the case: a row with null ms_played refers to a placeholder and a
\* later row follows it.
C24_Witness ==
    \E r, x \in history :
        /\ r.ms_played = NULL
        /\ IsPlaceholder(tracks, r.track_id)
        /\ x.played_at > r.played_at

\* C25: live-feed events fill track metadata. After insert_play_history_objects
\* has processed an event, the tracks row of the event's track id has non-null
\* data, whatever the store was before, a placeholder of a bulk import for
\* that id included.
C25_LiveFeedFillsMetadata ==
    Usable =>
        \A items \in ItemLists :
            LET r == insert_play_history_objects(tracks, history, items, NULL)
            IN r.error = OK =>
                  \A i \in 1..Len(items) :
                      \A row \in r.tracks :
                          row.track_id = items[i].track.id => row.data # NULL

\* C25, what holds: an event whose track id has no tracks row and whose
\* second is free gets its row with the metadata of the event.
C25_LiveFeedFillsMissingTrack ==
    Usable =>
        \A item \in PlayHistoryObjects :
            LET r == insert_play_history_objects(tracks, history, <<item>>, NULL)
            IN (/\ ~HasTrack(tracks, item.track.id)
                /\ ~HasPlay(history, unixepoch(item.played_at)))
               => /\ r.error = OK
                  /\ IsFull(r.tracks, item.track.id)

\* C25, the case: the live feed has stored an event of a track that a bulk
\* import left as a placeholder.
C25_Witness ==
    \E r \in history :
        /\ r.ms_played \notin ImportedMs
        /\ IsPlaceholder(tracks, r.track_id)
        /\ \E x \in history : x.track_id = r.track_id /\ x.ms_played \in ImportedMs

\* C26: the duration of a bulk import belongs to the same play. Whenever
\* insert_from_gdpr_json fills the ms_played of a row that was stored before
\* the call, a record of the export with the row's second and the row's track
\* supplies the value; a record of another track at that second changes nothing.
C26_ImportedDurationOfSameTrack ==
    Usable =>
        \A order \in ImportOrders :
            LET r == insert_from_gdpr_json(tracks, history, order, FALSE, <<>>, 0)
            IN \A row \in history, x \in r.history :
                  (/\ x.played_at = row.played_at
                   /\ row.ms_played = NULL
                   /\ x.ms_played # NULL)
                  => \E i \in 1..Len(order) :
                        /\ unixepoch(order[i].played_at) = row.played_at
                        /\ order[i].track_id = row.track_id
                        /\ Some(order[i].ms_played) = x.ms_played

\* C26, what holds: the value that fills a stored row is that of a record of
\* the export with the row's second, and a row that has a value keeps it.
C26_ImportedDurationOfSameSecond ==
    Usable =>
        \A order \in ImportOrders :
            LET r == insert_from_gdpr_json(tracks, history, order, FALSE, <<>>, 0)
            IN \A row \in history, x \in r.history :
                  x.played_at = row.played_at =>
                      IF row.ms_played = NULL
                      THEN x.ms_played # NULL =>
                              \E i \in 1..Len(order) :
                                  /\ unixepoch(order[i].played_at) = row.played_at
                                  /\ Some(order[i].ms_played) = x.ms_played
                      ELSE x.ms_played = row.ms_played

\* C26, the case: a row with null ms_played is stored at a second for which
\* an export holds a record of the other track.
C26_Witness ==
    \E row \in history, order \in ImportOrders :
        /\ row.ms_played = NULL
        /\ \E i \in 1..Len(order) :
              /\ unixepoch(order[i].played_at) = row.played_at
              /\ order[i].track_id # row.track_id

\* C27: bounds of an estimated duration. Every ms_played that
\* backfill_ms_played writes, from every state of the store and every start
\* point, is greater than 0 and at most the duration_ms that the metadata of
\* the row's track declares.
C27_EstimateBounds ==
    Usable =>
        \A backfill_from \in BackfillStarts :
            LET b == backfill_ms_played(tracks, history, backfill_from)
            IN \A row \in history, x \in b.history :
                  (/\ x.played_at = row.played_at
                   /\ row.ms_played = NULL
                   /\ x.ms_played # NULL)
                  => /\ Val(x.ms_played) > 0
                     /\ IsFull(tracks, row.track_id)
                     /\ Val(x.ms_played)
                           <= Val(TrackRow(tracks, row.track_id).data).duration_ms

\* C27, witness: the backfill has written both kinds of estimate: one row
\* holds the full duration of its track, another the shorter time up to the
\* row after it.
C27_Witness ==
    \E r, x \in history :
        /\ IsFull(tracks, r.track_id)
        /\ IsFull(tracks, x.track_id)
        /\ r.ms_played = Some(Val(TrackRow(tracks, r.track_id).data).duration_ms)
        /\ x.ms_played \notin ImportedMs \cup {NULL}
        /\ Val(x.ms_played) < Val(TrackRow(tracks, x.track_id).data).duration_ms
        /\ \E y \in history :
              /\ y.played_at > x.played_at
              /\ Val(x.ms_played) = (y.played_at - x.played_at) * MsPerSec

\* C28: the today-last-year read succeeds on every calendar date. Whatever
\* the current date, 29 February of a leap year included, get_today_last_year
\* returns without an error.
C28_TodayLastYearSucceeds ==
    result.op = "get_today_last_year" => result.error = OK

\* C28, what holds: the read fails on 29 February only; on every other date
\* it returns the top tracks of the single day one year earlier.
C28_TodayLastYearButLeapDay ==
    result.op = "get_today_last_year" =>
        IF result.today.month = 2 /\ result.today.day = 29
        THEN result.error = "ValueError"
        ELSE /\ result.error = OK
             /\ LET day == [result.today EXCEPT !.year = result.today.year - 1]
                IN result.rows = get_top_tracks(tracks, history, day, day, result.limit)

\* C28, the case: the read has run on 29 February with plays in the ledger.
C28_Witness ==
    /\ result.op = "get_today_last_year"
    /\ result.today = Date(1972, 2, 29)
    /\ history # {}

====
